---- MODULE Spec2Model ----
(***************************************************************************)
(* A model of docs/generate_flowcharts_pdf.py: a script that assembles a   *)
(* list of layout elements (the "story") for four pages and hands it to    *)
(* the layout library's build entry point, which writes one PDF file.      *)
(*                                                                         *)
(* Lengths are integers in units of 1/18000 mm, so that the point, the     *)
(* inch and the millimetre and every fraction of them the script uses are  *)
(* whole numbers.  A text is a sequence of fragments; a line feed is a     *)
(* fragment of its own.                                                    *)
(***************************************************************************)
EXTENDS Integers, Sequences, FiniteSets, TLC

(***************************************************************************)
(* Bounds of the model.                                                    *)
(***************************************************************************)
\* how many times the script is run, one run after the other
MaxRuns == 2
\* how many pages beyond the first the layout engine may need for one section
MaxOverflow == 1

(***************************************************************************)
(* Units and page size (reportlab.lib.units, reportlab.lib.pagesizes).     *)
(***************************************************************************)
mm == 18000
pt == 6350
inch == 457200

A4 == <<210 * mm, 297 * mm>>
landscape(size) == IF size[1] < size[2] THEN <<size[2], size[1]>> ELSE size

PAGE_W == landscape(A4)[1]
PAGE_H == landscape(A4)[2]

\* n / d of an inch, for the decimal factors of the script (2.8 * inch = Inches(28, 10))
Inches(n, d) == (n * inch) \div d
Points(n, d) == (n * pt) \div d

(***************************************************************************)
(* Colors.                                                                 *)
(***************************************************************************)
HexColor(s) == [hex |-> s]
\* Color.hexval(): '0x' followed by the six hex digits, here as three fragments
hexval(c) == <<"0", "x", c.hex>>
\* s[2:] of a fragment sequence whose first two fragments are single characters
DropTwo(s) == SubSeq(s, 3, Len(s))

TEAL == HexColor("14b8a6")
TEAL_DARK == HexColor("0d9488")
TEAL_BG == HexColor("0d3d38")
CYAN == HexColor("00ffe5")
PINK == HexColor("ff6ec7")
AMBER == HexColor("f59e0b")
CORAL == HexColor("ff6b6b")
PURPLE == HexColor("a78bfa")
GREEN == HexColor("22c55e")
BLUE == HexColor("3b82f6")
DARK_BG == HexColor("0A1A1A")
SURFACE_MID == HexColor("111827")
SURFACE_CARD == HexColor("1a2332")
WHITE == HexColor("ffffff")
WHITE_70 == HexColor("b3b3b3")
WHITE_40 == HexColor("666666")
GLOW == HexColor("0d3d3820")
LAYER_CYAN == HexColor("06b6d4")
NoColor == HexColor("")

(***************************************************************************)
(* Paragraph styles: the parent's name and the keyword arguments given.    *)
(***************************************************************************)
TA_LEFT == "TA_LEFT"
TA_CENTER == "TA_CENTER"

ParagraphStyle(name, parent, kw) == kw @@ [name |-> name, parent |-> parent]

title_style ==
    ParagraphStyle("FlowTitle", "Title",
        [fontSize |-> 24 * pt, textColor |-> WHITE, fontName |-> "Helvetica-Bold",
         spaceAfter |-> 6 * pt, alignment |-> TA_CENTER])
subtitle_style ==
    ParagraphStyle("FlowSubtitle", "Normal",
        [fontSize |-> 11 * pt, textColor |-> WHITE_70, fontName |-> "Helvetica",
         spaceAfter |-> 20 * pt, alignment |-> TA_CENTER])
box_title_style ==
    ParagraphStyle("BoxTitle", "Normal",
        [fontSize |-> 11 * pt, textColor |-> WHITE, fontName |-> "Helvetica-Bold",
         alignment |-> TA_CENTER, leading |-> 14 * pt])
box_body_style ==
    ParagraphStyle("BoxBody", "Normal",
        [fontSize |-> 8 * pt, textColor |-> WHITE_70, fontName |-> "Helvetica",
         alignment |-> TA_CENTER, leading |-> 10 * pt])
phase_title_style ==
    ParagraphStyle("PhaseTitle", "Normal",
        [fontSize |-> 12 * pt, textColor |-> WHITE, fontName |-> "Helvetica-Bold",
         alignment |-> TA_LEFT, leading |-> 14 * pt])
phase_body_style ==
    ParagraphStyle("PhaseBody", "Normal",
        [fontSize |-> 9 * pt, textColor |-> WHITE_70, fontName |-> "Helvetica",
         alignment |-> TA_LEFT, leading |-> 12 * pt])
phase_sub_style ==
    ParagraphStyle("PhaseSub", "Normal",
        [fontSize |-> 9 * pt, textColor |-> WHITE_40, fontName |-> "Helvetica-Oblique",
         alignment |-> TA_LEFT, leading |-> 11 * pt])
layer_title_style ==
    ParagraphStyle("LayerTitle", "Normal",
        [fontSize |-> 11 * pt, textColor |-> WHITE, fontName |-> "Helvetica-Bold",
         alignment |-> TA_CENTER, leading |-> 14 * pt])
layer_body_style ==
    ParagraphStyle("LayerBody", "Normal",
        [fontSize |-> 8 * pt, textColor |-> WHITE_70, fontName |-> "Helvetica",
         alignment |-> TA_CENTER, leading |-> 10 * pt])
arrow_style ==
    ParagraphStyle("Arrow", "Normal",
        [fontSize |-> 16 * pt, textColor |-> TEAL, fontName |-> "Helvetica-Bold",
         alignment |-> TA_CENTER, spaceBefore |-> 2 * pt, spaceAfter |-> 2 * pt])
small_arrow_style ==
    ParagraphStyle("SmallArrow", "Normal",
        [fontSize |-> 12 * pt, textColor |-> TEAL, fontName |-> "Helvetica-Bold",
         alignment |-> TA_CENTER, spaceBefore |-> 1 * pt, spaceAfter |-> 1 * pt])

(***************************************************************************)
(* Python values and layout elements.                                      *)
(***************************************************************************)
Str(s) == [kind |-> "str", value |-> s]
List(items) == [kind |-> "list", items |-> items]

Paragraph(text, style) == [kind |-> "Paragraph", text |-> text, style |-> style]
Spacer(w, h) == [kind |-> "Spacer", width |-> w, height |-> h]
PageBreak == [kind |-> "PageBreak"]
\* Table(data, colWidths, rowHeights) followed by setStyle(TableStyle(cmds))
Table(data, colWidths, rowHeights, cmds) ==
    [kind |-> "Table", data |-> data, colWidths |-> colWidths,
     rowHeights |-> rowHeights, style |-> cmds]

\* Python's truth value: '' and [] are false, any other object is true
Truthy(v) ==
    CASE v.kind = "str" -> v.value # ""
      [] v.kind = "list" -> v.items # <<>>
      [] OTHER -> TRUE

\* str.replace on fragments
replace(text, old, new) == [k \in DOMAIN text |-> IF text[k] = old THEN new ELSE text[k]]

\* one TableStyle command; the fields a command does not use keep their defaults
Cmd(name, start, stop) ==
    [cmd |-> name, start |-> start, stop |-> stop, word |-> "", num |-> 0,
     color |-> NoColor, radii |-> <<>>]
CmdWord(name, start, stop, w) == [Cmd(name, start, stop) EXCEPT !.word = w]
CmdNum(name, start, stop, n) == [Cmd(name, start, stop) EXCEPT !.num = n]
CmdColor(name, start, stop, c) == [Cmd(name, start, stop) EXCEPT !.color = c]
CmdBox(start, stop, w, c) == [Cmd("BOX", start, stop) EXCEPT !.num = w, !.color = c]
CmdRounded(r) == [Cmd("ROUNDEDCORNERS", <<>>, <<>>) EXCEPT !.radii = r]

ALL_FROM == <<0, 0>>
ALL_TO == <<-1, -1>>

(***************************************************************************)
(* Paths (posixpath): absolute or relative, a sequence of components.      *)
(***************************************************************************)
Path(isabs, parts) == [abs |-> isabs, parts |-> parts]

RECURSIVE NormParts(_, _, _)
\* the component loop of posixpath.normpath: '..' drops the component before
\* it, is dropped itself at the root, and is kept at the start of a relative path
NormParts(isabs, todo, acc) ==
    IF todo = <<>> THEN acc
    ELSE LET c == Head(todo) IN
         IF c = "." THEN NormParts(isabs, Tail(todo), acc)
         ELSE IF c # ".." THEN NormParts(isabs, Tail(todo), Append(acc, c))
         ELSE IF acc # <<>> /\ acc[Len(acc)] # ".."
              THEN NormParts(isabs, Tail(todo), SubSeq(acc, 1, Len(acc) - 1))
         ELSE IF isabs THEN NormParts(isabs, Tail(todo), acc)
         ELSE NormParts(isabs, Tail(todo), Append(acc, c))

normpath(p) == Path(p.abs, NormParts(p.abs, p.parts, <<>>))
join(a, b) == IF b.abs THEN b ELSE Path(a.abs, a.parts \o b.parts)
dirname(p) ==
    IF p.parts = <<>> THEN p ELSE Path(p.abs, SubSeq(p.parts, 1, Len(p.parts) - 1))
\* os.path.abspath in a process whose working directory is dir
abspath(dir, p) == normpath(join(dir, p))

RECURSIVE CommonLen(_, _)
CommonLen(a, b) ==
    IF a = <<>> \/ b = <<>> \/ Head(a) # Head(b) THEN 0
    ELSE 1 + CommonLen(Tail(a), Tail(b))
\* the name by which a shell in directory dir reaches the absolute path p
relpath(dir, p) ==
    LET n == CommonLen(dir.parts, p.parts) IN
    Path(FALSE, [k \in 1..(Len(dir.parts) - n) |-> ".."]
                \o SubSeq(p.parts, n + 1, Len(p.parts)))

\* where the repository's script lives
ScriptDir == Path(TRUE, <<"repo", "docs">>)
ScriptFile == join(ScriptDir, Path(FALSE, <<"generate_flowcharts_pdf.py">>))
PdfName == Path(FALSE, <<"moltblox-flowcharts.pdf">>)

\* the environments a run may start in
Dirs == {ScriptDir, Path(TRUE, <<"repo">>), Path(TRUE, <<"home", "user">>)}
Argvs == {<<>>, <<"--output", "other.pdf">>}
Environs == {"", "OUTPUT=other.pdf"}
\* sys.argv[0] as the interpreter sets __file__: as typed (relative to the
\* working directory) or made absolute
FileForms == {"typed", "absolute"}
DunderFile(dir, form) == IF form = "absolute" THEN ScriptFile ELSE relpath(dir, ScriptFile)

(***************************************************************************)
(* The literal content of the pages.                                       *)
(***************************************************************************)
NL == "\n"
BR == "<br/>"

JourneySteps == <<
    <<"1. Discovery", <<"Bot discovers Moltblox via", NL, "MCP tools or Submolt posts">> >>,
    <<"2. Connect Wallet", <<"SIWE authentication", NL, "Base chain wallet connect">> >>,
    <<"3. Browse Games", <<"Explore trending, search,", NL, "filter by genre/rating">> >>,
    <<"4. Play Game", <<"Launch WASM sandbox", NL, "Real-time or turn-based">> >>,
    <<"5. Earn MOLT", <<"Win tournaments, sell items,", NL, "create popular games">> >>,
    <<"6. Create Game", <<"Use BaseGame template", NL, "5 methods to implement">> >>,
    <<"7. Publish & Monetize", <<"Set price, create items", NL, "85% revenue to creator">> >>,
    <<"8. Community", <<"Post in Submolts", NL, "Rate games, give feedback">> >>,
    <<"9. Return (Heartbeat)", <<"Auto-visit every 4 hours", NL, "Check earnings & trending">> >> >>

phases == <<
    [color |-> TEAL, title |-> "Phase 1: Foundation", subtitle |-> "Database + Auth",
     items |-> <<"PostgreSQL with Prisma ORM schema",
                 "SIWE wallet-based authentication",
                 "JWT token management + Redis sessions",
                 "Replace all mock routes with real queries">>],
    [color |-> BLUE, title |-> "Phase 2: Blockchain", subtitle |-> "Contracts + Wallet",
     items |-> <<"Deploy MoltToken, GameMarketplace, TournamentManager to Base Sepolia",
                 "Add wagmi + RainbowKit to frontend",
                 "Wire purchase flow through smart contracts",
                 "Test token transfers end-to-end">>],
    [color |-> PURPLE, title |-> "Phase 3: Integration", subtitle |-> "Frontend U+2194 API",
     items |-> <<"API client utility with auth headers",
                 "React Query for data fetching + caching",
                 "Replace all mock data with live API calls",
                 "WebSocket connection for real-time features">>],
    [color |-> AMBER, title |-> "Phase 4: Infrastructure", subtitle |-> "Deploy",
     items |-> <<"Vercel (frontend) + Railway (API) + Neon (DB)",
                 "Upstash Redis for caching + sessions",
                 "Domain + SSL via Cloudflare",
                 "Environment variables + secrets management">>],
    [color |-> GREEN, title |-> "Phase 5: Polish", subtitle |-> "Pre-Launch",
     items |-> <<"Cloudflare R2 for file/asset storage",
                 "Sentry error monitoring",
                 "Rate limiting + security review",
                 "Load testing + documentation">>] >>

layers == <<
    [color |-> LAYER_CYAN, title |-> "Clients",
     body |-> <<"Web Browser  |  MCP Agents (OpenClaw/Clawdbots)  |  Arena SDK  |  WebSocket Clients">>],
    [color |-> TEAL, title |-> "Frontend",
     body |-> <<"Next.js 14 App Router  |  Tailwind CSS  |  wagmi + RainbowKit  |  React Query">>],
    [color |-> BLUE, title |-> "API Gateway",
     body |-> <<"Express.js  |  SIWE Auth Middleware  |  JWT Validation  |  Rate Limiting  |  WebSocket (ws)">>],
    [color |-> PURPLE, title |-> "Services",
     body |-> <<"GamePublishingService  |  PurchaseService  |  TournamentService  |  BracketGenerator", NL,
                "DiscoveryService  |  EloSystem  |  RankedMatchmaker  |  LeaderboardService  |  SpectatorHub">>],
    [color |-> AMBER, title |-> "Data Layer",
     body |-> <<"PostgreSQL (Prisma ORM)  |  Redis (Upstash)  |  Cloudflare R2 (Assets)  |  WASM Runtime">>],
    [color |-> GREEN, title |-> "Blockchain",
     body |-> <<"Base L2 (Ethereum)  |  MoltToken (ERC-20)  |  GameMarketplace  |  TournamentManager">>] >>

streams == <<
    <<"Tournament Entry Fees", <<"Bots pay MOLT to enter", NL, "Prize pool: 50/25/15/10 split">> >>,
    <<"Marketplace Cosmetics", <<"Skins, badges, effects", NL, "Creator-made virtual goods">> >>,
    <<"Premium Submolts", <<"Exclusive communities", NL, "Gated access via MOLT">> >>,
    <<"Spectator Tips", <<"Watch bot vs bot matches", NL, "Tip favorite competitors">> >> >>

RIGHT_ARROW == "&#8594;"
DOWN_ARROW == "&#8595;"

(***************************************************************************)
(* The state of a run of the script, of the file system it runs on, and of *)
(* the layout engine while build is running.                               *)
(***************************************************************************)
VARIABLES
    run,            \* the number of the current run
    cwd,            \* the run's working directory
    argv,           \* the run's command-line arguments
    environ,        \* the run's environment
    dunder_file,    \* __file__
    env_changed,    \* whether this run's working directory, arguments and
                    \* environment all differ from those of the run before (history)
    pc,             \* the statement the script is about to execute
    output_path,
    doc,            \* the SimpleDocTemplate
    story,
    journey_steps,
    row_idx, col_idx, row_data, full_row,
    i,              \* the index of the phase and layer loops
    stdout,         \* what the run has printed
    exc,            \* the exception the run died of
    build_calls,    \* how often this run invoked doc.build
    handed,         \* the content lists handed to build, one per invocation, over all runs
    raised,         \* the exception the engine raised in this run's build
    fs,             \* the file system: path -> file
    written,        \* the paths created or modified so far, over all runs
    canvas,         \* the engine's canvas
    section,        \* the section of the story the engine is laying out
    overflow,       \* the pages the current section has overflowed by
    page_log        \* per page started in this build: the callbacks' drawing operations

env_vars == <<run, cwd, argv, environ, dunder_file, env_changed>>
script_vars == <<pc, output_path, doc, story, journey_steps, row_idx, col_idx,
                 row_data, full_row, i, stdout, exc, build_calls, handed>>
engine_vars == <<raised, fs, written, canvas, section, overflow, page_log>>
vars == <<env_vars, script_vars, engine_vars>>

NoPath == Path(FALSE, <<>>)
NoDoc == [filename |-> NoPath]
NoExc == "none"
NoFile == [exists |-> FALSE, bytes |-> <<>>]
\* every file a run could name
AllFiles ==
    {join(d, PdfName) : d \in Dirs} \cup {join(d, Path(FALSE, <<"other.pdf">>)) : d \in Dirs}

BLACK == HexColor("000000")
\* a canvas at the start of a page: the default fill color, nothing saved
FreshCanvas == [fill |-> BLACK, stack |-> <<>>]

Env(dir, form, args, en) ==
    [cwd |-> dir, dunder_file |-> DunderFile(dir, form), argv |-> args, environ |-> en]
Envs == {Env(d, f, a, e) : d \in Dirs, f \in FileForms, a \in Argvs, e \in Environs}

\* the interpreter is about to execute the first statement of the script
FreshScript ==
    /\ pc = "output_path"
    /\ output_path = NoPath
    /\ doc = NoDoc
    /\ story = <<>>
    /\ journey_steps = <<>>
    /\ row_idx = 0 /\ col_idx = 0 /\ row_data = <<>> /\ full_row = <<>>
    /\ i = 0
    /\ stdout = <<>>
    /\ exc = NoExc
    /\ build_calls = 0
    /\ raised = NoExc
    /\ canvas = FreshCanvas
    /\ section = 0
    /\ overflow = 0
    /\ page_log = <<>>

Init ==
    /\ run = 1
    /\ \E e \in Envs :
        /\ cwd = e.cwd /\ dunder_file = e.dunder_file
        /\ argv = e.argv /\ environ = e.environ
    /\ env_changed = FALSE
    /\ FreshScript
    /\ handed = <<>>
    /\ fs = [f \in AllFiles |-> NoFile]
    /\ written = {}

(***************************************************************************)
(* The script, statement by statement.                                     *)
(***************************************************************************)
\* a variant of line 34 that names the file alone, so that it lands in the
\* working directory
OutputPath_InCwd(dir, file) == join(dir, PdfName)

\* line 34: os.path.join(os.path.dirname(os.path.abspath(__file__)), '...pdf')
OutputPath(dir, file) == join(dirname(abspath(dir, file)), PdfName)

ComputeOutputPath ==
    /\ pc = "output_path"
    /\ output_path' = OutputPath(cwd, dunder_file)
    /\ pc' = "doc"
    /\ UNCHANGED <<env_vars, engine_vars, doc, story, journey_steps, row_idx, col_idx,
                   row_data, full_row, i, stdout, exc, build_calls, handed>>

\* a variant of lines 36-43 that passes the bare file name instead of output_path
SimpleDocTemplate_BareName(filename) ==
    [filename |-> PdfName, pagesize |-> landscape(A4),
     topMargin |-> Inches(6, 10), bottomMargin |-> Inches(5, 10),
     leftMargin |-> Inches(6, 10), rightMargin |-> Inches(6, 10)]

\* lines 36-43
SimpleDocTemplate(filename) ==
    [filename |-> filename, pagesize |-> landscape(A4),
     topMargin |-> Inches(6, 10), bottomMargin |-> Inches(5, 10),
     leftMargin |-> Inches(6, 10), rightMargin |-> Inches(6, 10)]

MakeDoc ==
    /\ pc = "doc"
    /\ doc' = SimpleDocTemplate(output_path)
    /\ pc' = "story"
    /\ UNCHANGED <<env_vars, engine_vars, output_path, story, journey_steps, row_idx,
                   col_idx, row_data, full_row, i, stdout, exc, build_calls, handed>>

\* line 100
StoryInit ==
    /\ pc = "story"
    /\ story' = <<>>
    /\ pc' = "page1_header"
    /\ UNCHANGED <<env_vars, engine_vars, output_path, doc, journey_steps, row_idx,
                   col_idx, row_data, full_row, i, stdout, exc, build_calls, handed>>

\* a variant of a page header that leaves the subtitle out
Header_NoSubtitle(title, subtitle) == <<Paragraph(<<title>>, title_style)>>

\* a page's first two elements: the title and the subtitle
Header(title, subtitle) ==
    <<Paragraph(<<title>>, title_style), Paragraph(<<subtitle>>, subtitle_style)>>

\* a variant of lines 119-120 that takes the title from the command line
Page1Header_FromArgv ==
    <<Paragraph(<<IF argv = <<>> THEN "User Journey Flow" ELSE argv[1]>>, title_style),
      Paragraph(<<"How bots and players interact with the Moltblox platform">>, subtitle_style)>>

\* lines 119-120
Page1Header ==
    Header("User Journey Flow", "How bots and players interact with the Moltblox platform")

AppendPage1Header ==
    /\ pc = "page1_header"
    /\ story' = story \o Page1Header
    /\ pc' = "journey_steps"
    /\ UNCHANGED <<env_vars, engine_vars, output_path, doc, journey_steps, row_idx,
                   col_idx, row_data, full_row, i, stdout, exc, build_calls, handed>>

\* lines 122-132
DefineJourneySteps ==
    /\ pc = "journey_steps"
    /\ journey_steps' = JourneySteps
    /\ row_idx' = 0
    /\ pc' = "row_begin"
    /\ UNCHANGED <<env_vars, engine_vars, output_path, doc, story, col_idx, row_data,
                   full_row, i, stdout, exc, build_calls, handed>>

\* lines 135-137: the next row of the 3-row loop starts
RowBegin ==
    /\ pc = "row_begin"
    /\ row_idx < 3
    /\ row_data' = <<>>
    /\ col_idx' = 0
    /\ pc' = "row_cell"
    /\ UNCHANGED <<env_vars, engine_vars, output_path, doc, story, journey_steps,
                   row_idx, full_row, i, stdout, exc, build_calls, handed>>

\* a variant of lines 138-148 that indexes the steps one too far
StepCell_OffByOne(steps, step_idx) ==
    IF step_idx + 1 < Len(steps)
    THEN List(<<Paragraph(<<steps[step_idx + 2][1]>>, box_title_style),
                Spacer(1 * pt, 4 * pt),
                Paragraph(replace(steps[step_idx + 2][2], NL, BR), box_body_style)>>)
    ELSE Str("")

\* lines 138-148: the cell of one column (steps are indexed from 0 in the script)
StepCell(steps, step_idx) ==
    IF step_idx < Len(steps)
    THEN List(<<Paragraph(<<steps[step_idx + 1][1]>>, box_title_style),
                Spacer(1 * pt, 4 * pt),
                Paragraph(replace(steps[step_idx + 1][2], NL, BR), box_body_style)>>)
    ELSE Str("")

RowCell ==
    /\ pc = "row_cell"
    /\ col_idx < 3
    /\ row_data' = Append(row_data, StepCell(journey_steps, row_idx * 3 + col_idx))
    /\ col_idx' = col_idx + 1
    /\ UNCHANGED <<env_vars, engine_vars, pc, output_path, doc, story, journey_steps,
                   row_idx, full_row, i, stdout, exc, build_calls, handed>>

RECURSIVE InsertArrows(_, _)
\* lines 151-155: cells k.. of data, each followed by a right arrow when it is
\* not the last cell and is true
InsertArrows(data, k) ==
    IF k > Len(data) THEN <<>>
    ELSE <<data[k]>>
         \o (IF k - 1 < Len(data) - 1 /\ Truthy(data[k])
             THEN <<Paragraph(<<RIGHT_ARROW>>, arrow_style)>> ELSE <<>>)
         \o InsertArrows(data, k + 1)

RowArrows ==
    /\ pc = "row_cell"
    /\ col_idx = 3
    /\ full_row' = InsertArrows(row_data, 1)
    /\ pc' = "row_table"
    /\ UNCHANGED <<env_vars, engine_vars, output_path, doc, story, journey_steps,
                   row_idx, col_idx, row_data, i, stdout, exc, build_calls, handed>>

\* lines 157-162 (columns are indexed from 0 in the script)
ColWidths(row) ==
    [k \in 1..Len(row) |-> IF (k - 1) % 2 = 0 THEN Inches(28, 10) ELSE Inches(5, 10)]

RECURSIVE BoxCmds(_, _)
\* lines 175-181: for i in range(0, len(full_row), 2), from column c (0-based) on
BoxCmds(row, c) ==
    IF c >= Len(row) THEN <<>>
    ELSE (IF Truthy(row[c + 1])
          THEN <<CmdColor("BACKGROUND", <<c, 0>>, <<c, 0>>, SURFACE_CARD),
                 CmdBox(<<c, 0>>, <<c, 0>>, Points(15, 10), TEAL),
                 CmdRounded(<<8 * pt, 8 * pt, 8 * pt, 8 * pt>>)>>
          ELSE <<>>)
         \o BoxCmds(row, c + 2)

\* lines 166-181
BoxStyleCmds(row) ==
    <<CmdWord("VALIGN", ALL_FROM, ALL_TO, "MIDDLE"),
      CmdWord("ALIGN", ALL_FROM, ALL_TO, "CENTER"),
      CmdNum("TOPPADDING", ALL_FROM, ALL_TO, 8 * pt),
      CmdNum("BOTTOMPADDING", ALL_FROM, ALL_TO, 8 * pt),
      CmdNum("LEFTPADDING", ALL_FROM, ALL_TO, 6 * pt),
      CmdNum("RIGHTPADDING", ALL_FROM, ALL_TO, 6 * pt)>>
    \o BoxCmds(row, 0)

\* lines 164 and 183
RowTableOf(row) ==
    Table(<<row>>, ColWidths(row), <<Inches(11, 10)>>, BoxStyleCmds(row))

RowTable ==
    /\ pc = "row_table"
    /\ story' = Append(story, RowTableOf(full_row))
    /\ pc' = "row_down"
    /\ UNCHANGED <<env_vars, engine_vars, output_path, doc, journey_steps, row_idx,
                   col_idx, row_data, full_row, i, stdout, exc, build_calls, handed>>

\* a one-cell table holding a down arrow
ArrowTable(text, style, width, height) ==
    Table(<< <<Paragraph(text, style)>> >>, <<width>>, <<height>>,
          <<CmdWord("ALIGN", <<0, 0>>, <<0, 0>>, "CENTER"),
            CmdWord("VALIGN", <<0, 0>>, <<0, 0>>, "MIDDLE")>>)

\* line 187
RowHasDownArrow(r) == r < 2

\* lines 188-200
RowDownArrow ==
    <<Spacer(1 * pt, 2 * pt),
      ArrowTable(<<DOWN_ARROW>>, arrow_style, PAGE_W - Inches(12, 10), Inches(35, 100)),
      Spacer(1 * pt, 2 * pt)>>

RowDown ==
    /\ pc = "row_down"
    /\ story' = story \o (IF RowHasDownArrow(row_idx) THEN RowDownArrow ELSE <<>>)
    /\ row_idx' = row_idx + 1
    /\ pc' = "row_begin"
    /\ UNCHANGED <<env_vars, engine_vars, output_path, doc, journey_steps, col_idx,
                   row_data, full_row, i, stdout, exc, build_calls, handed>>

\* line 202: the row loop is over
AppendPageBreak1 ==
    /\ pc = "row_begin"
    /\ row_idx = 3
    /\ story' = Append(story, PageBreak)
    /\ pc' = "page2_header"
    /\ UNCHANGED <<env_vars, engine_vars, output_path, doc, journey_steps, row_idx,
                   col_idx, row_data, full_row, i, stdout, exc, build_calls, handed>>

(***************************************************************************)
(* Page 2: the roadmap.                                                    *)
(***************************************************************************)
\* rowHeights=[None]: the engine sizes the row
NoneHeight == -1

\* lines 208-209
Page2Header ==
    Header("Implementation Roadmap", "5-phase path from development to production launch")

AppendPage2Header ==
    /\ pc = "page2_header"
    /\ story' = story \o Page2Header
    /\ i' = 0
    /\ pc' = "phase_loop"
    /\ UNCHANGED <<env_vars, engine_vars, output_path, doc, journey_steps, row_idx,
                   col_idx, row_data, full_row, stdout, exc, build_calls, handed>>

RECURSIVE JoinTexts(_, _)
\* sep.join(texts)
JoinTexts(sep, texts) ==
    IF texts = <<>> THEN <<>>
    ELSE IF Len(texts) = 1 THEN texts[1]
    ELSE texts[1] \o <<sep>> \o JoinTexts(sep, Tail(texts))

\* '<font color="#' + color.hexval()[2:] + '">'
FontOpen(color) == <<"<font color=\"#">> \o DropTwo(hexval(color)) \o <<"\">">>

\* a one-cell table with a colored box around it
CardTable(cell, width, heights, cmds) == Table(<< <<List(cell)>> >>, <<width>>, heights, cmds)

\* lines 245-268
PhaseTable(ph) ==
    CardTable(
        <<Paragraph(FontOpen(ph.color) \o <<ph.title, "</font>">>, phase_title_style),
          Paragraph(<<"<i>", ph.subtitle, "</i>">>, phase_sub_style),
          Spacer(1 * pt, 4 * pt),
          Paragraph(JoinTexts(BR, [k \in DOMAIN ph.items |-> <<"&bull; ", ph.items[k]>>]),
                    phase_body_style)>>,
        PAGE_W - Inches(14, 10), <<NoneHeight>>,
        <<CmdColor("BACKGROUND", <<0, 0>>, <<0, 0>>, SURFACE_CARD),
          CmdBox(<<0, 0>>, <<0, 0>>, 2 * pt, ph.color),
          CmdNum("TOPPADDING", <<0, 0>>, <<0, 0>>, 10 * pt),
          CmdNum("BOTTOMPADDING", <<0, 0>>, <<0, 0>>, 10 * pt),
          CmdNum("LEFTPADDING", <<0, 0>>, <<0, 0>>, 14 * pt),
          CmdNum("RIGHTPADDING", <<0, 0>>, <<0, 0>>, 14 * pt),
          CmdWord("VALIGN", <<0, 0>>, <<0, 0>>, "TOP")>>)

\* a variant of line 270 that puts an arrow after the last phase too
PhaseHasDownArrow_Always(k) == k < Len(phases)

\* line 270 (k counts from 0)
PhaseHasDownArrow(k) == k < Len(phases) - 1

\* lines 271-282
PhaseDownArrow ==
    <<Spacer(1 * pt, 2 * pt),
      ArrowTable(<<DOWN_ARROW>>, small_arrow_style, PAGE_W - Inches(14, 10), Inches(25, 100)),
      Spacer(1 * pt, 2 * pt)>>

\* lines 244-282: one iteration of the phase loop
PhaseStep ==
    /\ pc = "phase_loop"
    /\ i < Len(phases)
    /\ story' = Append(story, PhaseTable(phases[i + 1]))
                \o (IF PhaseHasDownArrow(i) THEN PhaseDownArrow ELSE <<>>)
    /\ i' = i + 1
    /\ UNCHANGED <<env_vars, engine_vars, pc, output_path, doc, journey_steps, row_idx,
                   col_idx, row_data, full_row, stdout, exc, build_calls, handed>>

\* line 284
AppendPageBreak2 ==
    /\ pc = "phase_loop"
    /\ i = Len(phases)
    /\ story' = Append(story, PageBreak)
    /\ pc' = "page3_header"
    /\ UNCHANGED <<env_vars, engine_vars, output_path, doc, journey_steps, row_idx,
                   col_idx, row_data, full_row, i, stdout, exc, build_calls, handed>>

(***************************************************************************)
(* Page 3: the architecture.                                               *)
(***************************************************************************)
\* lines 290-291
Page3Header ==
    Header("System Architecture", "Layered architecture from clients to blockchain")

AppendPage3Header ==
    /\ pc = "page3_header"
    /\ story' = story \o Page3Header
    /\ i' = 0
    /\ pc' = "layer_loop"
    /\ UNCHANGED <<env_vars, engine_vars, output_path, doc, journey_steps, row_idx,
                   col_idx, row_data, full_row, stdout, exc, build_calls, handed>>

\* the style of the layer boxes and of the boxes of page 4
LayerCmds(color) ==
    <<CmdColor("BACKGROUND", <<0, 0>>, <<0, 0>>, SURFACE_CARD),
      CmdBox(<<0, 0>>, <<0, 0>>, 2 * pt, color),
      CmdNum("TOPPADDING", <<0, 0>>, <<0, 0>>, 10 * pt),
      CmdNum("BOTTOMPADDING", <<0, 0>>, <<0, 0>>, 10 * pt),
      CmdNum("LEFTPADDING", <<0, 0>>, <<0, 0>>, 12 * pt),
      CmdNum("RIGHTPADDING", <<0, 0>>, <<0, 0>>, 12 * pt),
      CmdWord("VALIGN", <<0, 0>>, <<0, 0>>, "MIDDLE"),
      CmdWord("ALIGN", <<0, 0>>, <<0, 0>>, "CENTER")>>

\* a bold colored title, a gap and a body
LayerCell(title_text, body_text) ==
    <<Paragraph(title_text, layer_title_style),
      Spacer(1 * pt, 3 * pt),
      Paragraph(body_text, layer_body_style)>>

\* lines 303-320
LayerTable(ly) ==
    CardTable(
        LayerCell(FontOpen(ly.color) \o <<"<b>", ly.title, "</b>", "</font>">>,
                  replace(ly.body, NL, BR)),
        PAGE_W - Inches(14, 10), <<NoneHeight>>, LayerCmds(ly.color))

\* line 322 (k counts from 0)
LayerHasDownArrow(k) == k < Len(layers) - 1

\* lines 323-332
LayerDownArrow ==
    <<ArrowTable(<<DOWN_ARROW>>, small_arrow_style, PAGE_W - Inches(14, 10), Inches(22, 100))>>

\* lines 302-332: one iteration of the layer loop
LayerStep ==
    /\ pc = "layer_loop"
    /\ i < Len(layers)
    /\ story' = Append(story, LayerTable(layers[i + 1]))
                \o (IF LayerHasDownArrow(i) THEN LayerDownArrow ELSE <<>>)
    /\ i' = i + 1
    /\ UNCHANGED <<env_vars, engine_vars, pc, output_path, doc, journey_steps, row_idx,
                   col_idx, row_data, full_row, stdout, exc, build_calls, handed>>

\* line 334
AppendPageBreak3 ==
    /\ pc = "layer_loop"
    /\ i = Len(layers)
    /\ story' = Append(story, PageBreak)
    /\ pc' = "page4_header"
    /\ UNCHANGED <<env_vars, engine_vars, output_path, doc, journey_steps, row_idx,
                   col_idx, row_data, full_row, i, stdout, exc, build_calls, handed>>

(***************************************************************************)
(* Page 4: the revenue flow.                                               *)
(***************************************************************************)
\* lines 340-341
Page4Header ==
    Header("Revenue Flow", "How MOLT tokens flow through the Moltblox economy")

AppendPage4Header ==
    /\ pc = "page4_header"
    /\ story' = story \o Page4Header
    /\ pc' = "revenue_flow"
    /\ UNCHANGED <<env_vars, engine_vars, output_path, doc, journey_steps, row_idx,
                   col_idx, row_data, full_row, i, stdout, exc, build_calls, handed>>

\* lines 398-407: the style of the two split labels
split_style(name, color) ==
    ParagraphStyle(name, "Normal",
        [fontSize |-> 10 * pt, textColor |-> color, fontName |-> "Helvetica-Bold",
         alignment |-> TA_CENTER, leading |-> 12 * pt])

\* lines 344-360
PlayerTable ==
    CardTable(
        LayerCell(<<"<font color=\"#06b6d4\"><b>Player / Bot</b></font>">>,
                  <<"Purchases game items, enters tournaments,", BR,
                    "buys cosmetics with MOLT tokens">>),
        PAGE_W - Inches(14, 10), <<>>, LayerCmds(LAYER_CYAN))

\* lines 363-374
PaymentArrow ==
    <<Spacer(1 * pt, 4 * pt),
      ArrowTable(<<DOWN_ARROW, "  MOLT Payment  ", DOWN_ARROW>>, small_arrow_style,
                 PAGE_W - Inches(14, 10), Inches(3, 10)),
      Spacer(1 * pt, 4 * pt)>>

\* lines 377-393
ContractTable ==
    CardTable(
        LayerCell(<<"<font color=\"#f59e0b\"><b>GameMarketplace Smart Contract</b></font>">>,
                  <<"On-chain escrow &amp; automatic split on Base L2">>),
        PAGE_W - Inches(14, 10), <<>>, LayerCmds(AMBER))

\* lines 396-416
SplitLabel ==
    <<Spacer(1 * pt, 4 * pt),
      Table(<< <<Paragraph(<<"&#8601;  85% Creator Share">>, split_style("SplitLeft", GREEN)),
                 Paragraph(<<"15% Platform Fee  &#8600;">>, split_style("SplitRight", CORAL))>> >>,
            <<(PAGE_W - Inches(14, 10)) \div 2, (PAGE_W - Inches(14, 10)) \div 2>>,
            <<Inches(3, 10)>>,
            <<CmdWord("ALIGN", ALL_FROM, ALL_TO, "CENTER"),
              CmdWord("VALIGN", ALL_FROM, ALL_TO, "MIDDLE")>>),
      Spacer(1 * pt, 4 * pt)>>

\* lines 419-444
DestinationTable ==
    Table(<< <<List(LayerCell(<<"<font color=\"#22c55e\"><b>Game Creator</b></font>">>,
                              <<"85% of all purchases", BR, "Direct to wallet, instant", BR,
                                "No minimum payout">>)),
               List(LayerCell(<<"<font color=\"#ff6b6b\"><b>Platform Treasury</b></font>">>,
                              <<"15% platform fee", BR, "Funds: tournaments, infra,", BR,
                                "development, moderation">>))>> >>,
          <<(PAGE_W - Inches(18, 10)) \div 2, (PAGE_W - Inches(18, 10)) \div 2>>,
          <<>>,
          <<CmdColor("BACKGROUND", <<0, 0>>, <<0, 0>>, SURFACE_CARD),
            CmdColor("BACKGROUND", <<1, 0>>, <<1, 0>>, SURFACE_CARD),
            CmdBox(<<0, 0>>, <<0, 0>>, 2 * pt, GREEN),
            CmdBox(<<1, 0>>, <<1, 0>>, 2 * pt, CORAL),
            CmdNum("TOPPADDING", ALL_FROM, ALL_TO, 10 * pt),
            CmdNum("BOTTOMPADDING", ALL_FROM, ALL_TO, 10 * pt),
            CmdNum("LEFTPADDING", ALL_FROM, ALL_TO, 12 * pt),
            CmdNum("RIGHTPADDING", ALL_FROM, ALL_TO, 12 * pt),
            CmdWord("VALIGN", ALL_FROM, ALL_TO, "MIDDLE"),
            CmdWord("ALIGN", ALL_FROM, ALL_TO, "CENTER")>>)

\* a variant of the script that calls build before the streams are appended
AppendRevenueFlow_ThenBuild ==
    /\ pc = "revenue_flow"
    /\ story' = Append(story, PlayerTable) \o PaymentArrow \o <<ContractTable>>
                \o SplitLabel \o <<DestinationTable>>
    /\ pc' = "build"
    /\ UNCHANGED <<env_vars, engine_vars, output_path, doc, journey_steps, row_idx,
                   col_idx, row_data, full_row, i, stdout, exc, build_calls, handed>>

\* lines 344-444
AppendRevenueFlow ==
    /\ pc = "revenue_flow"
    /\ story' = Append(story, PlayerTable) \o PaymentArrow \o <<ContractTable>>
                \o SplitLabel \o <<DestinationTable>>
    /\ pc' = "streams"
    /\ UNCHANGED <<env_vars, engine_vars, output_path, doc, journey_steps, row_idx,
                   col_idx, row_data, full_row, i, stdout, exc, build_calls, handed>>

\* lines 447-452
RevTitle ==
    <<Spacer(1 * pt, 20 * pt),
      Paragraph(<<"Additional Revenue Streams">>,
                ParagraphStyle("RevTitle", "Normal",
                    [fontSize |-> 14 * pt, textColor |-> WHITE, fontName |-> "Helvetica-Bold",
                     alignment |-> TA_CENTER, spaceAfter |-> 10 * pt]))>>

\* lines 462-475
StreamCell(st) ==
    List(<<Paragraph(<<"<b>", st[1], "</b>">>,
                     ParagraphStyle("StreamTitle", "Normal",
                         [fontSize |-> 9 * pt, textColor |-> CYAN, fontName |-> "Helvetica-Bold",
                          alignment |-> TA_CENTER, leading |-> 11 * pt])),
           Spacer(1 * pt, 3 * pt),
           Paragraph(replace(st[2], NL, BR),
                     ParagraphStyle("StreamBody", "Normal",
                         [fontSize |-> 8 * pt, textColor |-> WHITE_70, fontName |-> "Helvetica",
                          alignment |-> TA_CENTER, leading |-> 10 * pt]))>>)

\* lines 477-490
StreamsTable ==
    Table(<< [k \in DOMAIN streams |-> StreamCell(streams[k])] >>,
          [k \in 1..4 |-> (PAGE_W - Inches(18, 10)) \div 4],
          <<>>,
          <<CmdColor("BACKGROUND", ALL_FROM, ALL_TO, SURFACE_CARD),
            CmdBox(<<0, 0>>, <<0, 0>>, 1 * pt, TEAL),
            CmdBox(<<1, 0>>, <<1, 0>>, 1 * pt, TEAL),
            CmdBox(<<2, 0>>, <<2, 0>>, 1 * pt, TEAL),
            CmdBox(<<3, 0>>, <<3, 0>>, 1 * pt, TEAL),
            CmdNum("TOPPADDING", ALL_FROM, ALL_TO, 8 * pt),
            CmdNum("BOTTOMPADDING", ALL_FROM, ALL_TO, 8 * pt),
            CmdNum("LEFTPADDING", ALL_FROM, ALL_TO, 6 * pt),
            CmdNum("RIGHTPADDING", ALL_FROM, ALL_TO, 6 * pt),
            CmdWord("VALIGN", ALL_FROM, ALL_TO, "TOP"),
            CmdWord("ALIGN", ALL_FROM, ALL_TO, "CENTER")>>)

\* lines 447-491
AppendStreams ==
    /\ pc = "streams"
    /\ story' = story \o RevTitle \o <<StreamsTable>>
    /\ pc' = "build"
    /\ UNCHANGED <<env_vars, engine_vars, output_path, doc, journey_steps, row_idx,
                   col_idx, row_data, full_row, i, stdout, exc, build_calls, handed>>

(***************************************************************************)
(* The page callback and the canvas it draws on.                           *)
(***************************************************************************)
saveState(c) == [c EXCEPT !.stack = Append(c.stack, c.fill)]
restoreState(c) ==
    [c EXCEPT !.fill = c.stack[Len(c.stack)],
              !.stack = SubSeq(c.stack, 1, Len(c.stack) - 1)]
setFillColor(c, color) == [c EXCEPT !.fill = color]
rect(c, x, y, w, h) ==
    [c EXCEPT !.ops = Append(c.ops, [shape |-> "rect", fill |-> c.fill,
                                     at |-> <<x, y>>, size |-> <<w, h>>])]
circle(c, x, y, r) ==
    [c EXCEPT !.ops = Append(c.ops, [shape |-> "circle", fill |-> c.fill,
                                     at |-> <<x, y>>, size |-> <<r, r>>])]

\* a variant of lines 106-113 without the closing restoreState
page_bg_NoRestore(c) ==
    LET c1 == saveState(c)
        c2 == setFillColor(c1, DARK_BG)
        c3 == rect(c2, 0, 0, PAGE_W, PAGE_H)
        c4 == setFillColor(c3, GLOW)
    IN circle(c4, PAGE_W - 100 * pt, PAGE_H - 80 * pt, 200 * pt)

\* lines 106-113
page_bg(c) ==
    LET c1 == saveState(c)
        c2 == setFillColor(c1, DARK_BG)
        c3 == rect(c2, 0, 0, PAGE_W, PAGE_H)
        c4 == setFillColor(c3, GLOW)
        c5 == circle(c4, PAGE_W - 100 * pt, PAGE_H - 80 * pt, 200 * pt)
    IN restoreState(c5)

\* line 497: the callbacks given to build
onFirstPage(c) == page_bg(c)
onLaterPages(c) == page_bg(c)

(***************************************************************************)
(* doc.build: the engine lays the story out page by page, calls the page   *)
(* callback at the start of every page, and writes the file at the end.    *)
(***************************************************************************)
RECURSIVE CountKind(_, _)
CountKind(seq, kind) ==
    IF seq = <<>> THEN 0
    ELSE (IF Head(seq).kind = kind THEN 1 ELSE 0) + CountKind(Tail(seq), kind)

\* the sections a story's page breaks cut it into
Sections(st) == CountKind(st, "PageBreak") + 1

\* line 497: the script calls build
BuildCall ==
    /\ pc = "build"
    /\ build_calls' = build_calls + 1
    /\ handed' = Append(handed, story)
    /\ section' = 1
    /\ overflow' = 0
    /\ page_log' = <<>>
    /\ pc' = "building"
    /\ UNCHANGED <<env_vars, raised, fs, written, canvas, output_path, doc, story,
                   journey_steps, row_idx, col_idx, row_data, full_row, i, stdout, exc>>

\* the callback the engine calls at the start of page number n
OnPage(n, c) == IF n = 1 THEN onFirstPage(c) ELSE onLaterPages(c)

\* the engine starts a page, calls the callback and fills the page from the
\* current section, which fits on it or overflows to one more page
EnginePage ==
    /\ pc = "building"
    /\ section <= Sections(handed[Len(handed)])
    /\ LET before == [fill |-> FreshCanvas.fill, stack |-> FreshCanvas.stack, ops |-> <<>>]
           after == OnPage(Len(page_log) + 1, before)
       IN /\ page_log' = Append(page_log, [before |-> before, after |-> after])
          /\ canvas' = [fill |-> after.fill, stack |-> after.stack]
    /\ \E fits \in BOOLEAN :
        IF fits
        THEN section' = section + 1 /\ overflow' = 0
        ELSE overflow < MaxOverflow /\ section' = section /\ overflow' = overflow + 1
    /\ UNCHANGED <<env_vars, raised, fs, written, script_vars>>

\* a variant of the script that catches the exception of build and goes on
OnBuildError_Swallowed(e) == [pc |-> "print_generated", exc |-> NoExc]

\* build is over, by return or by exception: the engine's working state is gone
EngineDone ==
    /\ canvas' = FreshCanvas
    /\ section' = 0
    /\ overflow' = 0
    /\ page_log' = <<>>

\* what the script does with an exception of build: nothing, it propagates
OnBuildError(e) == [pc |-> "error", exc |-> e]

\* the file a name denotes for a process whose working directory is dir
Resolve(dir, name) == abspath(dir, name)

\* the layout fails (a flowable too large for a page): build raises
EngineLayoutFail ==
    /\ pc = "building"
    /\ section <= Sections(handed[Len(handed)])
    /\ raised' = "LayoutError"
    /\ pc' = OnBuildError("LayoutError").pc
    /\ exc' = OnBuildError("LayoutError").exc
    /\ EngineDone
    /\ UNCHANGED <<env_vars, fs, written, output_path, doc, story, journey_steps,
                   row_idx, col_idx, row_data, full_row, i, stdout, build_calls, handed>>

\* a PDF file: the header signature, the version, the objects, the trailer
PdfBytes == <<"%PDF-", "1.4", "objects", "%%EOF">>

\* the last page is laid out: the engine writes the file and build returns
EngineSave ==
    /\ pc = "building"
    /\ section > Sections(handed[Len(handed)])
    /\ LET target == Resolve(cwd, doc.filename) IN
        /\ fs' = (target :> [exists |-> TRUE, bytes |-> PdfBytes]) @@ fs
        /\ written' = written \cup {target}
    /\ pc' = "print_generated"
    /\ EngineDone
    /\ UNCHANGED <<env_vars, raised, output_path, doc, story, journey_steps, row_idx,
                   col_idx, row_data, full_row, i, stdout, exc, build_calls, handed>>

\* the file cannot be written and build raises: it cannot be opened (the file
\* system is left alone) or the write fails after the file was opened (an
\* empty file is left)
EngineSaveFail ==
    /\ pc = "building"
    /\ section > Sections(handed[Len(handed)])
    /\ \E opened \in BOOLEAN :
        LET target == Resolve(cwd, doc.filename) IN
        IF opened
        THEN /\ fs' = (target :> [exists |-> TRUE, bytes |-> <<>>]) @@ fs
             /\ written' = written \cup {target}
        ELSE UNCHANGED <<fs, written>>
    /\ raised' = "OSError"
    /\ pc' = OnBuildError("OSError").pc
    /\ exc' = OnBuildError("OSError").exc
    /\ EngineDone
    /\ UNCHANGED <<env_vars, output_path, doc, story, journey_steps, row_idx, col_idx,
                   row_data, full_row, i, stdout, build_calls, handed>>

\* line 498
PrintGenerated ==
    /\ pc = "print_generated"
    /\ stdout' = Append(stdout, [label |-> "Generated", path |-> output_path])
    /\ pc' = "print_size"
    /\ UNCHANGED <<env_vars, engine_vars, output_path, doc, story, journey_steps,
                   row_idx, col_idx, row_data, full_row, i, exc, build_calls, handed>>

\* line 499: os.path.getsize raises when the file does not exist
PrintSize ==
    /\ pc = "print_size"
    /\ LET f == Resolve(cwd, output_path) IN
        IF f \in DOMAIN fs /\ fs[f].exists
        THEN /\ stdout' = Append(stdout, [label |-> "Size", size |-> Len(fs[f].bytes)])
             /\ pc' = "done"
             /\ exc' = exc
        ELSE /\ stdout' = stdout
             /\ pc' = "error"
             /\ exc' = "FileNotFoundError"
    /\ UNCHANGED <<env_vars, engine_vars, output_path, doc, story, journey_steps,
                   row_idx, col_idx, row_data, full_row, i, build_calls, handed>>

\* the run is over; the script is run again, in any environment
NextRun ==
    /\ pc \in {"done", "error"}
    /\ run < MaxRuns
    /\ run' = run + 1
    /\ \E e \in Envs :
        /\ cwd' = e.cwd /\ dunder_file' = e.dunder_file
        /\ argv' = e.argv /\ environ' = e.environ
        /\ env_changed' = (e.cwd # cwd /\ e.argv # argv /\ e.environ # environ)
    /\ pc' = "output_path"
    /\ output_path' = NoPath
    /\ doc' = NoDoc
    /\ story' = <<>>
    /\ journey_steps' = <<>>
    /\ row_idx' = 0 /\ col_idx' = 0 /\ row_data' = <<>> /\ full_row' = <<>>
    /\ i' = 0
    /\ stdout' = <<>>
    /\ exc' = NoExc
    /\ build_calls' = 0
    /\ raised' = NoExc
    /\ canvas' = FreshCanvas
    /\ section' = 0
    /\ overflow' = 0
    /\ page_log' = <<>>
    /\ UNCHANGED <<handed, fs, written>>

Next ==
    \/ ComputeOutputPath \/ MakeDoc \/ StoryInit
    \/ AppendPage1Header \/ DefineJourneySteps
    \/ RowBegin \/ RowCell \/ RowArrows \/ RowTable \/ RowDown \/ AppendPageBreak1
    \/ AppendPage2Header \/ PhaseStep \/ AppendPageBreak2
    \/ AppendPage3Header \/ LayerStep \/ AppendPageBreak3
    \/ AppendPage4Header \/ AppendRevenueFlow \/ AppendStreams
    \/ BuildCall \/ EnginePage \/ EngineLayoutFail \/ EngineSave \/ EngineSaveFail
    \/ PrintGenerated \/ PrintSize
    \/ NextRun

Spec == Init /\ [][Next]_vars

(***************************************************************************)
(* The page 1 row builder on its own, for every step list the guard of     *)
(* line 139 lets through: the first n journey steps, n = 0 .. 9.           *)
(***************************************************************************)
InitRows ==
    /\ run = 1
    /\ \E e \in Envs :
        /\ cwd = e.cwd /\ dunder_file = e.dunder_file
        /\ argv = e.argv /\ environ = e.environ
        /\ output_path = OutputPath(e.cwd, e.dunder_file)
        /\ doc = SimpleDocTemplate(OutputPath(e.cwd, e.dunder_file))
    /\ env_changed = FALSE
    /\ pc = "row_begin"
    /\ story = Page1Header
    /\ \E n \in 0..Len(JourneySteps) : journey_steps = SubSeq(JourneySteps, 1, n)
    /\ row_idx = 0 /\ col_idx = 0 /\ row_data = <<>> /\ full_row = <<>>
    /\ i = 0
    /\ stdout = <<>>
    /\ exc = NoExc
    /\ build_calls = 0
    /\ raised = NoExc
    /\ canvas = FreshCanvas
    /\ section = 0
    /\ overflow = 0
    /\ page_log = <<>>
    /\ handed = <<>>
    /\ fs = [f \in AllFiles |-> NoFile]
    /\ written = {}

NextRows == RowBegin \/ RowCell \/ RowArrows \/ RowTable \/ RowDown

SpecRows == InitRows /\ [][NextRows]_vars

(***************************************************************************)
(* Reading a content list.                                                 *)
(***************************************************************************)
RECURSIVE IdxOfKind(_, _, _)
\* the indexes from k on of the elements of one kind, in order
IdxOfKind(st, k, kind) ==
    IF k > Len(st) THEN <<>>
    ELSE (IF st[k].kind = kind THEN <<k>> ELSE <<>>) \o IdxOfKind(st, k + 1, kind)

Breaks(st) == IdxOfKind(st, 1, "PageBreak")

\* the n-th of the sections the page breaks cut st into
SectionN(st, n) ==
    LET b == <<0>> \o Breaks(st) \o <<Len(st) + 1>>
    IN SubSeq(st, b[n] + 1, b[n + 1] - 1)

IsTable(e) == e.kind = "Table"
TablesOf(seq) == SelectSeq(seq, IsTable)

\* a one-cell table holding just the down arrow
IsDownArrow(e) ==
    /\ e.kind = "Table"
    /\ Len(e.data) = 1 /\ Len(e.data[1]) = 1
    /\ e.data[1][1].kind = "Paragraph"
    /\ e.data[1][1].text = <<DOWN_ARROW>>

IsCard(e) == e.kind = "Table" /\ ~IsDownArrow(e)
CardsOf(seq) == SelectSeq(seq, IsCard)

IsRightArrow(cell) == cell.kind = "Paragraph" /\ cell.text = <<RIGHT_ARROW>>
IsBox(cell) == cell.kind = "list" /\ cell.items # <<>>
IsPlaceholder(cell) == cell.kind = "str" /\ cell.value = ""

\* the cell (col, row), both counted from 0 and negative from the end, of a
\* table of ncols columns and one row, is in the range of command c
InRange(c, col, ncols) ==
    /\ c.start # <<>>
    /\ LET from == IF c.start[1] < 0 THEN ncols + c.start[1] ELSE c.start[1]
           to == IF c.stop[1] < 0 THEN ncols + c.stop[1] ELSE c.stop[1]
       IN from <= col /\ col <= to

\* column col (from 0) of table t has the card background and the teal border
HasBoxStyle(t, col) ==
    /\ \E k \in DOMAIN t.style :
        /\ t.style[k].cmd = "BACKGROUND" /\ t.style[k].color = SURFACE_CARD
        /\ InRange(t.style[k], col, Len(t.data[1]))
    /\ \E k \in DOMAIN t.style :
        /\ t.style[k].cmd = "BOX" /\ t.style[k].color = TEAL
        /\ InRange(t.style[k], col, Len(t.data[1]))

\* column col (from 0) of table t has a background or a border of any color
HasAnyBoxStyle(t, col) ==
    \E k \in DOMAIN t.style :
        /\ t.style[k].cmd \in {"BACKGROUND", "BOX"}
        /\ InRange(t.style[k], col, Len(t.data[1]))

\* some fragment of the first paragraph of a card's cell is the text s
CardNames(card, s) ==
    /\ card.data[1][1].kind = "list"
    /\ card.data[1][1].items # <<>>
    /\ \E k \in DOMAIN card.data[1][1].items[1].text : card.data[1][1].items[1].text[k] = s

\* the build of this run has returned
BuildReturned ==
    \/ pc \in {"print_generated", "print_size", "done"}
    \/ pc = "error" /\ raised = NoExc

\* where the PDF belongs: beside the script
ExpectedPath == join(ScriptDir, PdfName)

(***************************************************************************)
(* The properties.                                                         *)
(***************************************************************************)

\* C1: whenever the build call of a run has returned without raising, a
\* non-empty file exists at the expected output path (beside the script) and
\* its content starts with the PDF header signature.
C1_FileProduced ==
    (pc \in {"print_generated", "print_size", "done"}) =>
        /\ ExpectedPath \in DOMAIN fs
        /\ fs[ExpectedPath].exists
        /\ fs[ExpectedPath].bytes # <<>>
        /\ fs[ExpectedPath].bytes[1] = "%PDF-"

\* a run started outside the script's directory has run to completion
C1_Witness ==
    /\ pc = "done"
    /\ cwd # ScriptDir
    /\ Len(stdout) = 2

\* C2: the only file any run creates or modifies is the script's directory
\* joined with 'moltblox-flowcharts.pdf', whatever the working directory,
\* the arguments and the environment; a completed run has written it.
C2_OneFixedPath ==
    /\ written \subseteq {ExpectedPath}
    /\ \A f \in DOMAIN fs : f # ExpectedPath => fs[f] = NoFile
    /\ (pc \notin {"output_path"}) => output_path = ExpectedPath
    /\ (pc \notin {"output_path", "doc"}) => doc.filename = ExpectedPath
    /\ BuildReturned => written = {ExpectedPath}

\* a run given arguments and an environment variable, started in another
\* directory under the name a shell there would type, has written the file
C2_Witness ==
    /\ pc = "done"
    /\ cwd = Path(TRUE, <<"home", "user">>)
    /\ dunder_file = Path(FALSE, <<"..", "..", "repo", "docs", "generate_flowcharts_pdf.py">>)
    /\ argv # <<>>
    /\ environ # ""
    /\ written = {ExpectedPath}

\* the title and the subtitle a section starts with
StartsWith(sec, title) ==
    /\ Len(sec) >= 2
    /\ sec[1].kind = "Paragraph" /\ sec[1].style = title_style /\ sec[1].text = <<title>>
    /\ sec[2].kind = "Paragraph" /\ sec[2].style = subtitle_style /\ sec[2].text # <<>>

FourPages(st) ==
    /\ Len(Breaks(st)) = 3
    /\ st[1].kind # "PageBreak"
    /\ st[Len(st)].kind # "PageBreak"
    /\ \A k \in 1..(Len(st) - 1) : ~(st[k].kind = "PageBreak" /\ st[k + 1].kind = "PageBreak")
    /\ StartsWith(SectionN(st, 1), "User Journey Flow")
    /\ StartsWith(SectionN(st, 2), "Implementation Roadmap")
    /\ StartsWith(SectionN(st, 3), "System Architecture")
    /\ StartsWith(SectionN(st, 4), "Revenue Flow")

\* C3: every content list handed to build holds exactly three page breaks,
\* none first, last or next to another, and the four sections they delimit
\* start, in this order, with the titles 'User Journey Flow', 'Implementation
\* Roadmap', 'System Architecture' and 'Revenue Flow', each followed at once
\* by a subtitle paragraph.
C3_FourPages == \A k \in DOMAIN handed : FourPages(handed[k])

\* build has been invoked and the engine is laying out the third section
C3_Witness ==
    /\ pc = "building"
    /\ handed # <<>>
    /\ section = 3

\* C4: build is invoked at most once in a run and exactly once in a run that
\* completes, only when the content list holds every element of the four
\* pages (60 elements, the streams table last); the list is the one handed
\* over ever after, and nothing is printed before build has returned.
C4_BuildOnceAtEnd ==
    /\ build_calls <= 1
    /\ (build_calls = 0) <=>
           (pc \notin {"building", "print_generated", "print_size", "done", "error"})
    /\ (build_calls = 1) =>
        /\ handed # <<>>
        /\ story = handed[Len(handed)]
        /\ Len(story) = 60
        /\ story[Len(story)] = StreamsTable
        /\ Len(Breaks(story)) = 3
    /\ (pc = "done") => (build_calls = 1 /\ Len(stdout) = 2)
    /\ (stdout # <<>>) => (BuildReturned /\ pc # "print_generated")
    /\ \A k \in DOMAIN stdout : stdout[k].label = (IF k = 1 THEN "Generated" ELSE "Size")

\* the second run has completed: one build in it, both messages printed
C4_Witness ==
    /\ run = 2
    /\ pc = "done"
    /\ build_calls = 1
    /\ Len(handed) = 2
    /\ Len(stdout) = 2

\* C5: when build raises, the run is in the error state with the very
\* exception build raised, build was invoked once, and nothing was printed.
C5_ErrorPropagates ==
    (raised # NoExc) =>
        /\ pc = "error"
        /\ exc = raised
        /\ build_calls = 1
        /\ stdout = <<>>

\* build failed writing the file, leaving an empty file behind
C5_Witness ==
    /\ raised = "OSError"
    /\ pc = "error"
    /\ ExpectedPath \in written
    /\ fs[ExpectedPath].bytes = <<>>

\* C6: all runs hand the same content list to build, whatever their working
\* directory, arguments and environment.
C6_SameContent == \A a, b \in DOMAIN handed : handed[a] = handed[b]

\* two runs whose working directory, arguments and environment all differ
\* have both invoked build
C6_Witness ==
    /\ Len(handed) = 2
    /\ run = 2
    /\ env_changed
    /\ build_calls = 1

\* the box of journey step number k (from 0)
IsStepBox(cell, k) ==
    /\ IsBox(cell)
    /\ Len(cell.items) = 3
    /\ cell.items[1].kind = "Paragraph" /\ cell.items[1].text = <<JourneySteps[k + 1][1]>>
    /\ cell.items[3].kind = "Paragraph"
    /\ cell.items[3].text = <<JourneySteps[k + 1][2][1], BR, JourneySteps[k + 1][2][3]>>

\* how many cells of the row tables rows are the box of step k
BoxesOfStep(rows, k) ==
    Cardinality({rc \in (DOMAIN rows) \X (1..5) :
                    rc[2] <= Len(rows[rc[1]].data[1])
                    /\ IsStepBox(rows[rc[1]].data[1][rc[2]], k)})

Page1Grid(st) ==
    LET rows == CardsOf(SectionN(st, 1)) IN
    /\ Len(rows) = 3
    /\ \A r \in DOMAIN rows :
        /\ Len(rows[r].data) = 1
        /\ Len(rows[r].data[1]) = 5
        /\ rows[r].colWidths = <<Inches(28, 10), Inches(5, 10), Inches(28, 10),
                                 Inches(5, 10), Inches(28, 10)>>
        /\ \A c \in 0..4 :
            IF c % 2 = 0
            THEN /\ IsStepBox(rows[r].data[1][c + 1], (r - 1) * 3 + c \div 2)
                 /\ HasBoxStyle(rows[r], c)
            ELSE /\ IsRightArrow(rows[r].data[1][c + 1])
                 /\ ~HasAnyBoxStyle(rows[r], c)
    /\ \A k \in 0..8 : BoxesOfStep(rows, k) = 1

\* C7: once the row loop is over, page 1 holds 3 row tables of 5 columns,
\* 2.8 inch boxes alternating with 0.5 inch right arrows; step k is box
\* k mod 3 of row k div 3 and is in no other box; every box cell and no arrow
\* cell has the card background and the teal border.
C7_Page1Grid == (pc \notin {"output_path", "doc", "story", "page1_header", "journey_steps"}
                 /\ row_idx = 3) => Page1Grid(story)

\* the row loop has just ended
C7_Witness ==
    /\ pc = "row_begin"
    /\ row_idx = 3
    /\ Len(CardsOf(story)) = 3

\* boxes and down arrows alternate, from a box to a box, n boxes in all
Connected(sec, n) ==
    LET ts == TablesOf(sec) IN
    /\ Len(ts) = 2 * n - 1
    /\ \A k \in DOMAIN ts : IsDownArrow(ts[k]) <=> (k % 2 = 0)
    /\ Len(CardsOf(sec)) = n

DownArrows(st) ==
    /\ Len(Breaks(st)) >= 3
    /\ Connected(SectionN(st, 1), 3)
    /\ Connected(SectionN(st, 2), 5)
    /\ Connected(SectionN(st, 3), 6)
    /\ \A r \in 1..3 : IsStepBox(CardsOf(SectionN(st, 1))[r].data[1][1], (r - 1) * 3)
    /\ \A k \in 1..5 : CardNames(CardsOf(SectionN(st, 2))[k], phases[k].title)
    /\ \A k \in 1..6 : CardNames(CardsOf(SectionN(st, 3))[k], layers[k].title)

\* C8: once page 3 is assembled, the tables of page 1 are 3 rows with 2 down
\* arrows, those of page 2 are 5 phases with 4 down arrows and those of page
\* 3 are 6 layers with 5 down arrows; on each page boxes and down arrows
\* alternate from the first box to the last, and the boxes are in the order
\* of their source lists.
C8_DownArrows ==
    (pc \in {"page4_header", "revenue_flow", "streams", "build", "building",
             "print_generated", "print_size", "done", "error"}) => DownArrows(story)

\* page 3 has just been closed by its page break
C8_Witness ==
    /\ pc = "page4_header"
    /\ Len(Breaks(story)) = 3
    /\ story[Len(story)].kind = "PageBreak"

\* a row table as the row builder is meant to leave it
AlignedRow(t) ==
    /\ Len(t.data[1]) = 5
    /\ Len(t.colWidths) = Len(t.data[1])
    /\ \A c \in 0..(Len(t.data[1]) - 1) :
        IF c % 2 = 0
        THEN /\ IsBox(t.data[1][c + 1]) \/ IsPlaceholder(t.data[1][c + 1])
             /\ t.colWidths[c + 1] = Inches(28, 10)
             /\ HasBoxStyle(t, c) <=> IsBox(t.data[1][c + 1])
        ELSE /\ IsRightArrow(t.data[1][c + 1])
             /\ t.colWidths[c + 1] = Inches(5, 10)
             /\ ~HasAnyBoxStyle(t, c)

Backgrounds(ops) ==
    {k \in DOMAIN ops :
        /\ ops[k].shape = "rect" /\ ops[k].fill = DARK_BG
        /\ ops[k].at = <<0, 0>> /\ ops[k].size = <<PAGE_W, PAGE_H>>}

\* C10: on every page the engine starts, the first and the later ones, the
\* callback draws the dark background exactly once and leaves the canvas
\* with the fill color and the stack of saved states it found.
C10_PageBackground ==
    /\ \A n \in DOMAIN page_log :
        /\ Cardinality(Backgrounds(page_log[n].after.ops)) = 1
        /\ page_log[n].after.fill = page_log[n].before.fill
        /\ page_log[n].after.stack = page_log[n].before.stack
    /\ (pc = "building" /\ page_log # <<>>) => canvas = FreshCanvas

\* the engine has laid out the last of more than four pages (a section
\* overflowed), the first and the later ones each with its background
C10_Witness ==
    /\ pc = "building"
    /\ section > Sections(story)
    /\ Len(page_log) > 4

====
